---- MODULE Spec2Model ----
(***************************************************************************)
(* ID3 node selection of the DecisionTrees notebook (Week7).               *)
(*                                                                         *)
(* find_node(S) is complete in the notebook and is modelled statement by   *)
(* statement.  Entropy(S) and Gain(S, feature) are "Complete me" stubs:    *)
(* their values follow the two equations the notebook gives for them and   *)
(* the pandas helpers it recommends; the errors they raise follow the      *)
(* written specification of the selector.                                  *)
(*                                                                         *)
(* Floating-point values are fixed-point integers: a value x is held as    *)
(* x * Unit, Unit = 10^6 * Lcm, Lcm the least common multiple of the       *)
(* dataset sizes 1..MaxRecords, so that c/n and |D_i|/|D| divide exactly.  *)
(*                                                                         *)
(* The cells of the support vector machine, JAX and Keras notebooks follow *)
(* the properties of the selector, each notebook under a specification of  *)
(* its own (SvmSpec, NeuralSpec).                                          *)
(***************************************************************************)
EXTENDS Integers, Sequences, FiniteSets, TLC

(* Largest number of records of a dataset. *)
MaxRecords == 3

(* Values a feature column holds, values the label column holds. *)
FeatureValues == {"x", "y"}
LabelValues == {"l0", "l1", "l2"}

(* Column lists of the datasets: the label is the last column.  <<>> is a *)
(* table without columns, <<"L">> a table with the label column only.     *)
Schemas == {<<>>, <<"L">>, <<"A", "L">>, <<"A", "B", "L">>}

(* Names a caller may pass as the feature of Gain: "Z" is in no schema. *)
FeatureArgs == {"A", "B", "L", "Z"}

(* The worked example: four records of one feature A and a label. *)
WorkedExample ==
    [cols |-> <<"A", "L">>,
     index |-> <<1, 2, 3, 4>>,
     rows |-> <<<<"x", "l0">>, <<"x", "l1">>, <<"y", "l1">>, <<"y", "l1">>>>]

(* S is the table; S0 is the table as it was read.  first is the outcome  *)
(* of the first call of find_node that has ended.                         *)
VARIABLES S, pc, op, arg, cols, gains, calls, ret, S0, first

(* The names bound in the kernels of the other notebooks: the support    *)
(* vector machine activity (Week9), the JAX activity and the Keras        *)
(* activity.  Each is a record, one field per name of the notebook.       *)
VARIABLES svm, jax, keras

vars == <<S, pc, op, arg, cols, gains, calls, ret, S0, first, svm, jax, keras>>

----------------------------------------------------------------------------
(* Sequences and sums *)

RECURSIVE SumSeq(_)
SumSeq(s) == IF s = <<>> THEN 0 ELSE Head(s) + SumSeq(Tail(s))

RECURSIVE Gcd(_, _)
Gcd(a, b) == IF b = 0 THEN a ELSE Gcd(b, a % b)

RECURSIVE LcmUpTo(_)
LcmUpTo(n) == IF n <= 1 THEN 1 ELSE (LcmUpTo(n - 1) * n) \div Gcd(LcmUpTo(n - 1), n)

LcmOf(a, b) == (a * b) \div Gcd(a, b)

(* Least common multiple of the sizes of the datasets. *)
Lcm == LcmOf(LcmUpTo(MaxRecords), Len(WorkedExample.rows))

(* All tuples over the value sets of the columns of a schema. *)
RECURSIVE RecordsOf(_)
RecordsOf(schema) ==
    IF schema = <<>> THEN {<<>>}
    ELSE LET vals == IF Len(schema) = 1 THEN LabelValues ELSE FeatureValues
         IN  {<<v>> \o r : v \in vals, r \in RecordsOf(Tail(schema))}

SeqsUpTo(T, n) == UNION {[1..k -> T] : k \in 0..n}

(* A table: column names, row labels (the pandas index) and rows.  A freshly *)
(* read table is labelled 1..n.                                             *)
DataFrame(schema, rs) == [cols |-> schema, index |-> [i \in 1..Len(rs) |-> i], rows |-> rs]

DataFrames ==
    UNION {{DataFrame(schema, rs) : rs \in SeqsUpTo(RecordsOf(schema), MaxRecords)}
           : schema \in Schemas}

----------------------------------------------------------------------------
(* Outcome of a call: a returned value or a raised exception. *)

Return(v) == [err |-> "none", val |-> v]
Raise(e) == [err |-> e, val |-> 0]

----------------------------------------------------------------------------
(* pandas / numpy helpers *)

(* list(S): the column names, in column order. *)
List(df) == df.cols

(* Position of a column name in the column list; 0 when absent. *)
ColumnIndex(df, name) ==
    IF \E j \in 1..Len(df.cols) : df.cols[j] = name
    THEN CHOOSE j \in 1..Len(df.cols) : df.cols[j] = name
    ELSE 0

(* df[name]: the values of one column, in row order. *)
Column(df, j) == [i \in 1..Len(df.rows) |-> df.rows[i][j]]

(* pandas.unique(): the distinct values of a column, in order of first   *)
(* appearance.                                                           *)
RECURSIVE UniqueFrom(_, _)
UniqueFrom(s, seen) ==
    IF s = <<>> THEN <<>>
    ELSE IF Head(s) \in seen THEN UniqueFrom(Tail(s), seen)
    ELSE <<Head(s)>> \o UniqueFrom(Tail(s), seen \cup {Head(s)})

(* Mutation of Unique: only a value equal to the one just before it is   *)
(* dropped, so a value that comes back later is listed twice.            *)
RECURSIVE UniqueAdjacent(_)
UniqueAdjacent(s) ==
    IF Len(s) <= 1 THEN s
    ELSE IF s[1] = s[2] THEN UniqueAdjacent(Tail(s))
    ELSE <<s[1]>> \o UniqueAdjacent(Tail(s))

Unique(s) == UniqueFrom(s, {})

(* pandas.value_counts(): the number of rows per distinct value, as a    *)
(* sequence aligned with the distinct values.                            *)
CountOf(s, v) == Cardinality({i \in 1..Len(s) : s[i] = v})

ValueCounts(s) == [k \in 1..Len(Unique(s)) |-> CountOf(s, Unique(s)[k])]

(* df[df[feature] == value]: the rows whose column j holds v, in order,   *)
(* each keeping its row label.                                           *)
RECURSIVE SelectRows(_, _, _, _)
SelectRows(df, j, v, i) ==
    IF i > Len(df.rows) THEN <<>>
    ELSE IF df.rows[i][j] = v THEN <<i>> \o SelectRows(df, j, v, i + 1)
    ELSE SelectRows(df, j, v, i + 1)

(* Mutation of Filter: the rows whose column j differs from v are kept   *)
(* (!= for ==).                                                          *)
FilterNotEqual(df, j, v) ==
    LET keep == SelectSeq([i \in 1..Len(df.rows) |-> i], LAMBDA i : df.rows[i][j] # v)
    IN  [cols |-> df.cols,
         index |-> [k \in 1..Len(keep) |-> df.index[keep[k]]],
         rows |-> [k \in 1..Len(keep) |-> df.rows[keep[k]]]]

Filter(df, j, v) ==
    LET keep == SelectRows(df, j, v, 1)
    IN  [cols |-> df.cols,
         index |-> [k \in 1..Len(keep) |-> df.index[keep[k]]],
         rows |-> [k \in 1..Len(keep) |-> df.rows[keep[k]]]]

(* log2 of 1..8 in millionths.  The table is additive (Log2[a*b] =       *)
(* Log2[a] + Log2[b]) so that sums of logarithms that are equal as reals *)
(* are equal here.                                                       *)
Log2 == <<0, 1000000, 1584963, 2000000, 2321928, 2584963, 2807355, 3000000>>

(* Mutation of PLog2P: the factor p is left out (log2(p) for p*log2(p)). *)
PLog2PUnweighted(c, n) == (Log2[c] - Log2[n]) * Lcm

(* Mutation of PLog2P: the probability is smoothed, c/(n+1) in the       *)
(* logarithm.                                                            *)
PLog2PSmoothed(c, n) == (c * (Log2[c] - Log2[n + 1]) * Lcm) \div n

(* p * log2(p) for p = c/n, in fixed point. *)
PLog2P(c, n) == (c * (Log2[c] - Log2[n]) * Lcm) \div n

----------------------------------------------------------------------------
(* Entropy *)

(* Mutation of EntropyValue: the sign is lost (sum of p_i log2 p_i). *)
EntropyValuePositive(df) ==
    LET labels == Column(df, Len(df.cols))
        n == Len(labels)
        counts == ValueCounts(labels)
    IN  SumSeq([k \in 1..Len(counts) |-> PLog2P(counts[k], n)])

(* S(D) = sum_i -p_i log2 p_i over the label values value_counts finds. *)
EntropyValue(df) ==
    LET labels == Column(df, Len(df.cols))
        n == Len(labels)
        counts == ValueCounts(labels)
    IN  SumSeq([k \in 1..Len(counts) |-> 0 - PLog2P(counts[k], n)])

Entropy(df) ==
    IF Len(df.rows) = 0 THEN Raise("EmptyDatasetError")
    ELSE Return(EntropyValue(df))

----------------------------------------------------------------------------
(* Gain *)

(* Mutation of Partition: one subset per value the feature can take,     *)
(* whether the value occurs in df or not.                                *)
PartitionAllValues(df, j) ==
    LET values == <<"x", "y">>
    IN  [k \in 1..Len(values) |-> Filter(df, j, values[k])]

(* The subsets D_i of df, one per distinct value of column j. *)
Partition(df, j) ==
    LET values == Unique(Column(df, j))
    IN  [k \in 1..Len(values) |-> Filter(df, j, values[k])]

(* Mutation of GainValue: the subset entropies are summed without their  *)
(* weights |D_i|/|D|.                                                    *)
GainValueUnweighted(df, j) ==
    LET parts == Partition(df, j)
    IN  EntropyValue(df) - SumSeq([k \in 1..Len(parts) |-> EntropyValue(parts[k])])

(* Mutation of GainValue: the difference is taken the wrong way round. *)
GainValueSwapped(df, j) ==
    LET parts == Partition(df, j)
        n == Len(df.rows)
    IN  SumSeq([k \in 1..Len(parts) |->
                  (Len(parts[k].rows) * EntropyValue(parts[k])) \div n])
          - EntropyValue(df)

(* Mutation of GainValue: the weights are |D_i|/(|D|+1). *)
GainValueOffByOne(df, j) ==
    LET parts == Partition(df, j)
        n == Len(df.rows)
    IN  EntropyValue(df)
          - SumSeq([k \in 1..Len(parts) |->
                      (Len(parts[k].rows) * EntropyValue(parts[k])) \div (n + 1)])

(* Mutation of GainValue: the remainder sum_i |D_i|/|D| Entropy(D_i) is   *)
(* returned, not subtracted from S(D).                                   *)
GainValueRemainder(df, j) ==
    LET parts == Partition(df, j)
        n == Len(df.rows)
    IN  SumSeq([k \in 1..Len(parts) |->
                  (Len(parts[k].rows) * EntropyValue(parts[k])) \div n])

(* Gain(D, feature) = S(D) - sum_i |D_i|/|D| Entropy(D_i). *)
GainValue(df, j) ==
    LET parts == Partition(df, j)
        n == Len(df.rows)
    IN  EntropyValue(df)
          - SumSeq([k \in 1..Len(parts) |->
                      (Len(parts[k].rows) * EntropyValue(parts[k])) \div n])

(* Mutation of Gain: the label column is accepted as the feature. *)
GainLabelAllowed(df, feature) ==
    LET j == ColumnIndex(df, feature)
        invalid == j = 0
        empty == Len(df.rows) = 0
    IN  IF ~invalid /\ ~empty THEN {Return(GainValue(df, j))}
        ELSE {Raise("InvalidInputError") : x \in IF invalid THEN {1} ELSE {}}
               \cup {Raise("EmptyDatasetError") : x \in IF empty THEN {1} ELSE {}}

(* The outcomes of Gain(S, feature).  The specification names an error    *)
(* for a dataset of zero records and one for a feature that is the label  *)
(* or no column; where both apply it gives neither precedence.            *)
Gain(df, feature) ==
    LET j == ColumnIndex(df, feature)
        invalid == j = 0 \/ j = Len(df.cols)
        empty == Len(df.rows) = 0
    IN  IF ~invalid /\ ~empty THEN {Return(GainValue(df, j))}
        ELSE {Raise("InvalidInputError") : x \in IF invalid THEN {1} ELSE {}}
               \cup {Raise("EmptyDatasetError") : x \in IF empty THEN {1} ELSE {}}

----------------------------------------------------------------------------
(* find_node *)

(* Mutation of ButLast: the slice keeps the last column (cols[:] for     *)
(* cols[:-1]), so the loop also visits the target column.                *)
ButLastAll(s) == s

(* cols[:-1] *)
ButLast(s) == IF Len(s) = 0 THEN <<>> ELSE SubSeq(s, 1, Len(s) - 1)

(* Mutation of ArgMaxScan: the comparison is reversed (an argmin). *)
RECURSIVE ArgMaxScanLess(_, _, _)
ArgMaxScanLess(g, i, best) ==
    IF i > Len(g) THEN best
    ELSE IF g[i] < g[best] THEN ArgMaxScanLess(g, i + 1, i)
    ELSE ArgMaxScanLess(g, i + 1, best)

(* Mutation of ArgMaxScan: a later element also wins when it is equal. *)
RECURSIVE ArgMaxScanLast(_, _, _)
ArgMaxScanLast(g, i, best) ==
    IF i > Len(g) THEN best
    ELSE IF g[i] >= g[best] THEN ArgMaxScanLast(g, i + 1, i)
    ELSE ArgMaxScanLast(g, i + 1, best)

(* numpy.argmax over a one-dimensional array: a left-to-right scan that   *)
(* moves to a later element only when it is strictly greater.  Positions  *)
(* count from 1 here, as do those of cols.                                *)
RECURSIVE ArgMaxScan(_, _, _)
ArgMaxScan(g, i, best) ==
    IF i > Len(g) THEN best
    ELSE IF g[i] > g[best] THEN ArgMaxScan(g, i + 1, i)
    ELSE ArgMaxScan(g, i + 1, best)

(* Mutation of NpArgmax: an empty array yields position 0 and the lookup *)
(* cols[0] that follows raises IndexError.                               *)
NpArgmaxIndexError(g) ==
    IF Len(g) = 0 THEN Raise("IndexError") ELSE Return(ArgMaxScan(g, 2, 1))

(* The empty array raises ValueError ("attempt to get an argmax of an     *)
(* empty sequence").                                                      *)
NpArgmax(g) ==
    IF Len(g) = 0 THEN Raise("ValueError") ELSE Return(ArgMaxScan(g, 2, 1))

----------------------------------------------------------------------------
(* The other notebooks, not opened. *)
SvmClosed == [pc |-> "closed"]
JaxClosed == [pc |-> "closed"]
KerasClosed == [pc |-> "closed"]

----------------------------------------------------------------------------
(* No call of find_node has ended yet. *)
NoCall == [err |-> "nocall", val |-> 0]

Init ==
    /\ S \in DataFrames \cup {WorkedExample}
    /\ S0 = S
    /\ pc = "idle"
    /\ op = "none"
    /\ arg = "none"
    /\ cols = <<>>
    /\ gains = <<>>
    /\ calls = <<>>
    /\ ret = Return(0)
    /\ first = NoCall
    /\ svm = SvmClosed
    /\ jax = JaxClosed
    /\ keras = KerasClosed

(* Entropy(S), called on a table that has a label column. *)
CallEntropy ==
    /\ pc = "idle"
    /\ Len(S.cols) >= 1
    /\ op' = "Entropy"
    /\ ret' = Entropy(S)
    /\ pc' = "done"
    /\ UNCHANGED <<S, arg, cols, gains, calls, S0, first>>
    /\ UNCHANGED <<svm, jax, keras>>

(* Mutation of CallGain: Gain reorders the rows of the table in place. *)
CallGainInPlace(feature) ==
    /\ pc = "idle"
    /\ Len(S.cols) >= 1
    /\ op' = "Gain"
    /\ arg' = feature
    /\ ret' \in Gain(S, feature)
    /\ pc' = "done"
    /\ S' = [S EXCEPT !.rows = [i \in 1..Len(S.rows) |-> S.rows[Len(S.rows) + 1 - i]]]
    /\ UNCHANGED <<cols, gains, calls, S0, first>>
    /\ UNCHANGED <<svm, jax, keras>>

(* Gain(S, feature), called on a table that has a label column. *)
CallGain(feature) ==
    /\ pc = "idle"
    /\ Len(S.cols) >= 1
    /\ op' = "Gain"
    /\ arg' = feature
    /\ ret' \in Gain(S, feature)
    /\ pc' = "done"
    /\ UNCHANGED <<S, cols, gains, calls, S0, first>>
    /\ UNCHANGED <<svm, jax, keras>>

(* find_node(S): cols = list(S); gains = [] *)
FindNodeEnter ==
    /\ pc = "idle"
    /\ op' = "find_node"
    /\ cols' = List(S)
    /\ gains' = <<>>
    /\ pc' = "loop"
    /\ UNCHANGED <<S, arg, calls, ret, S0, first>>
    /\ UNCHANGED <<svm, jax, keras>>

(* Mutation of FindNodeLoop: an exception of Gain is caught and the gain *)
(* of the column is taken to be 0.                                       *)
FindNodeLoopSwallow ==
    /\ pc = "loop"
    /\ Len(gains) < Len(ButLast(cols))
    /\ LET c == ButLast(cols)[Len(gains) + 1]
       IN  /\ calls' = Append(calls, c)
           /\ \E o \in Gain(S, c) : gains' = Append(gains, o.val)
    /\ UNCHANGED <<S, pc, op, arg, cols, ret, S0, first>>
    /\ UNCHANGED <<svm, jax, keras>>

(* for c in cols[:-1]: gains.append(Gain(S, c)); an exception of Gain     *)
(* leaves find_node.                                                      *)
FindNodeLoop ==
    /\ pc = "loop"
    /\ Len(gains) < Len(ButLast(cols))
    /\ LET c == ButLast(cols)[Len(gains) + 1]
       IN  /\ calls' = Append(calls, c)
           /\ \E o \in Gain(S, c) :
                 IF o.err = "none"
                 THEN /\ gains' = Append(gains, o.val)
                      /\ UNCHANGED <<pc, ret>>
                 ELSE /\ ret' = o
                      /\ pc' = "done"
                      /\ UNCHANGED gains
    /\ UNCHANGED <<S, op, arg, cols, S0, first>>
    /\ UNCHANGED <<svm, jax, keras>>

(* Mutation of FindNodeReturn: any position of the maximum is returned. *)
FindNodeReturnAnyMax ==
    /\ pc = "loop"
    /\ Len(gains) = Len(ButLast(cols))
    /\ IF Len(gains) = 0 THEN ret' = Raise("ValueError")
       ELSE \E i \in 1..Len(gains) :
              /\ \A k \in 1..Len(gains) : gains[k] <= gains[i]
              /\ ret' = Return(cols[i])
    /\ pc' = "done"
    /\ UNCHANGED <<S, op, arg, cols, gains, calls, S0, first>>
    /\ UNCHANGED <<svm, jax, keras>>

(* return cols[np.argmax(gains)] *)
FindNodeReturn ==
    /\ pc = "loop"
    /\ Len(gains) = Len(ButLast(cols))
    /\ LET a == NpArgmax(gains)
       IN  ret' = IF a.err = "none" THEN Return(cols[a.val]) ELSE a
    /\ pc' = "done"
    /\ UNCHANGED <<S, op, arg, cols, gains, calls, S0, first>>
    /\ UNCHANGED <<svm, jax, keras>>

(* The call has ended: its locals are gone and the notebook can make the *)
(* next call on the same table.                                          *)
Again ==
    /\ pc = "done"
    /\ first' = IF op = "find_node" /\ first.err = "nocall" THEN ret ELSE first
    /\ pc' = "idle"
    /\ op' = "none"
    /\ arg' = "none"
    /\ cols' = <<>>
    /\ gains' = <<>>
    /\ calls' = <<>>
    /\ ret' = Return(0)
    /\ UNCHANGED <<S, S0>>
    /\ UNCHANGED <<svm, jax, keras>>

Next ==
    \/ CallEntropy
    \/ \E feature \in FeatureArgs : CallGain(feature)
    \/ FindNodeEnter
    \/ FindNodeLoop
    \/ FindNodeReturn
    \/ Again

Spec == Init /\ [][Next]_vars

----------------------------------------------------------------------------
(* Properties of find_node *)

(* The table has at least one record and at least one feature column. *)
WellFormed(df) == Len(df.rows) >= 1 /\ Len(df.cols) >= 2

(* Positions of the feature columns: every column but the last. *)
FeaturePositions(df) == 1..(Len(df.cols) - 1)

FindNodeDone == op = "find_node" /\ pc = "done"

FindNodeReturned == FindNodeDone /\ ret.err = "none"

(* C1: on a dataset with at least one record and one feature column,      *)
(* find_node returns a column whose gain is at least the gain of every    *)
(* feature column.                                                        *)
C1_ReturnsMaximalGain ==
    (FindNodeDone /\ WellFormed(S)) =>
        /\ ret.err = "none"
        /\ \A j \in FeaturePositions(S) :
              GainValue(S, ColumnIndex(S, ret.val)) >= GainValue(S, j)

(* C1 witness: find_node returned the second feature, whose gain is       *)
(* strictly greater than that of the first.                               *)
C1_Witness ==
    /\ FindNodeReturned
    /\ Len(S.cols) = 3
    /\ ret.val = S.cols[2]
    /\ GainValue(S, 2) > GainValue(S, 1)

(* C2: when several feature columns have the maximal gain, find_node      *)
(* returns the first of them in column order.                             *)
C2_FirstOfTheMaximal ==
    (FindNodeDone /\ WellFormed(S)) =>
        /\ ret.err = "none"
        /\ \A j \in FeaturePositions(S) :
              (\A k \in FeaturePositions(S) : GainValue(S, j) >= GainValue(S, k))
                  => ColumnIndex(S, ret.val) <= j

(* C2 witness: two feature columns tie at a maximal gain greater than 0   *)
(* and find_node returned the first.                                      *)
C2_Witness ==
    /\ FindNodeReturned
    /\ Len(S.cols) = 3
    /\ GainValue(S, 1) = GainValue(S, 2)
    /\ GainValue(S, 1) > 0
    /\ Column(S, 1) # Column(S, 2)
    /\ ret.val = S.cols[1]

(* C3: find_node calls Gain once per feature column, in column order and  *)
(* never for the last (label) column; the i-th gain is that of the i-th   *)
(* column; the name returned is a feature column, never the label column. *)
C3_GainOncePerFeatureInOrder ==
    /\ op = "find_node" =>
          /\ Len(calls) <= Len(S.cols) - 1 \/ calls = <<>>
          /\ \A k \in 1..Len(calls) : calls[k] = S.cols[k]
          /\ \A k \in 1..Len(gains) : gains[k] = GainValue(S, k)
    /\ FindNodeReturned =>
          /\ Len(calls) = Len(S.cols) - 1
          /\ Len(gains) = Len(calls)
          /\ \E j \in FeaturePositions(S) : ret.val = S.cols[j]
          /\ ret.val # S.cols[Len(S.cols)]

(* C3 witness: find_node returned after calling Gain for both features. *)
C3_Witness ==
    FindNodeReturned /\ calls = <<"A", "B">> /\ Len(gains) = 2

----------------------------------------------------------------------------
(* Errors *)

EntropyDone == op = "Entropy" /\ pc = "done"

GainDone == op = "Gain" /\ pc = "done"

NoFeatureColumns(df) == Len(df.cols) <= 1

NoRecords(df) == Len(df.rows) = 0

(* The feature passed to Gain is the label column or is no column. *)
InvalidFeature(df, feature) ==
    \/ \A j \in 1..Len(df.cols) : df.cols[j] # feature
    \/ df.cols[Len(df.cols)] = feature

(* C4 as stated: find_node on a dataset without feature columns fails     *)
(* with InvalidInputError.                                                *)
C4_Original ==
    (FindNodeDone /\ NoFeatureColumns(S)) => ret.err = "InvalidInputError"

(* C4 as amended: find_node on a dataset without feature columns (the     *)
(* label column only, or no column) calls Gain for no column, fails with  *)
(* the ValueError of argmax over an empty array and returns no name.      *)
C4_FailsWithValueError ==
    /\ (op = "find_node" /\ NoFeatureColumns(S)) => calls = <<>>
    /\ (FindNodeDone /\ NoFeatureColumns(S)) => ret.err = "ValueError"

(* C4 witness: find_node has failed on a table of records that has the    *)
(* label column only.                                                     *)
C4_Witness ==
    /\ FindNodeDone
    /\ S.cols = <<"L">>
    /\ Len(S.rows) >= 1
    /\ ret.err = "ValueError"

(* C5 as stated: on a dataset of zero records Entropy, Gain and find_node *)
(* each fail with EmptyDatasetError.                                      *)
C5_Original ==
    (pc = "done" /\ NoRecords(S)) => ret.err = "EmptyDatasetError"

(* C5 as amended: on a dataset of zero records every operation fails and  *)
(* returns no value.  The error is EmptyDatasetError for Entropy, for     *)
(* Gain with a valid feature column and for find_node on a dataset with a *)
(* feature column; find_node on a dataset without feature columns fails   *)
(* with ValueError, and Gain with an invalid feature fails with           *)
(* EmptyDatasetError or InvalidInputError.                                *)
C5_ZeroRecordsFail ==
    (pc = "done" /\ NoRecords(S)) =>
        /\ ret.err # "none"
        /\ EntropyDone => ret.err = "EmptyDatasetError"
        /\ (GainDone /\ ~InvalidFeature(S, arg)) => ret.err = "EmptyDatasetError"
        /\ (GainDone /\ InvalidFeature(S, arg)) =>
              ret.err \in {"EmptyDatasetError", "InvalidInputError"}
        /\ (FindNodeDone /\ ~NoFeatureColumns(S)) =>
              ret.err = "EmptyDatasetError" /\ calls = <<S.cols[1]>>
        /\ (FindNodeDone /\ NoFeatureColumns(S)) => ret.err = "ValueError"

(* C5 witness: find_node has failed with EmptyDatasetError on a table of  *)
(* two feature columns and zero records.                                  *)
C5_Witness ==
    /\ FindNodeDone
    /\ NoRecords(S)
    /\ Len(S.cols) = 3
    /\ ret.err = "EmptyDatasetError"

(* C6 as stated: Gain fails with InvalidInputError when the feature is    *)
(* the label column or is no column of the dataset.                       *)
C6_Original ==
    (GainDone /\ InvalidFeature(S, arg)) => ret.err = "InvalidInputError"

(* C6 as amended: Gain on a dataset of at least one record fails with     *)
(* InvalidInputError when the feature is the label column or is no column *)
(* of the dataset; on zero records it fails with InvalidInputError or     *)
(* EmptyDatasetError.                                                     *)
C6_InvalidFeatureFails ==
    (GainDone /\ InvalidFeature(S, arg)) =>
        /\ ret.err \in {"InvalidInputError", "EmptyDatasetError"}
        /\ ~NoRecords(S) => ret.err = "InvalidInputError"

(* C6 witness: Gain has failed with InvalidInputError when asked to split *)
(* a table of records on its label column.                                *)
C6_Witness ==
    /\ GainDone
    /\ Len(S.cols) = 3
    /\ arg = S.cols[3]
    /\ Len(S.rows) >= 1
    /\ ret.err = "InvalidInputError"

----------------------------------------------------------------------------
(* Properties of Entropy and Gain *)

RECURSIVE SumFun(_)
SumFun(f) ==
    IF DOMAIN f = {} THEN 0
    ELSE LET x == CHOOSE x \in DOMAIN f : TRUE
         IN  f[x] + SumFun([y \in DOMAIN f \ {x} |-> f[y]])

Range(s) == {s[k] : k \in 1..Len(s)}

(* Gain has computed the gain of column j of S: by a direct call that     *)
(* returned, or as one of the gains find_node has collected.              *)
GainComputed(j) ==
    \/ GainDone /\ ret.err = "none" /\ j = ColumnIndex(S, arg)
    \/ op = "find_node" /\ j \in 1..Len(gains)

(* parts is one subset of df per distinct value of column j, and every    *)
(* row of df is in exactly one of them.                                   *)
IsPartition(df, parts, j) ==
    /\ \A i \in 1..Len(df.rows) :
          Cardinality({k \in 1..Len(parts) : df.index[i] \in Range(parts[k].index)}) = 1
    /\ SumSeq([k \in 1..Len(parts) |-> Len(parts[k].rows)]) = Len(df.rows)
    /\ Len(parts) = Cardinality({df.rows[i][j] : i \in 1..Len(df.rows)})
    /\ \A k \in 1..Len(parts) :
          /\ Len(parts[k].index) = Len(parts[k].rows)
          /\ Cardinality(Range(parts[k].index)) = Len(parts[k].index)
          /\ \A m \in 1..Len(parts[k].rows) :
                /\ parts[k].index[m] \in Range(df.index)
                /\ parts[k].rows[m] = df.rows[parts[k].index[m]]
                /\ parts[k].rows[m][j] = parts[k].rows[1][j]

(* C7: the subsets Gain builds, one per distinct value of the feature,    *)
(* are disjoint and exhaustive: every record is in exactly one subset and *)
(* the subset sizes sum to the size of the dataset.                       *)
C7_PartitionExhaustiveDisjoint ==
    \A j \in 1..Len(S.cols) : GainComputed(j) => IsPartition(S, Partition(S, j), j)

(* C7 witness: Gain returned for a feature whose value in the first and   *)
(* third of three records differs from its value in the second.           *)
C7_Witness ==
    /\ GainDone
    /\ ret.err = "none"
    /\ Len(S.rows) = 3
    /\ S.rows[1][ColumnIndex(S, arg)] = S.rows[3][ColumnIndex(S, arg)]
    /\ S.rows[1][ColumnIndex(S, arg)] # S.rows[2][ColumnIndex(S, arg)]

(* Number of records of df whose label is v. *)
LabelCount(df, v) ==
    Cardinality({i \in 1..Len(df.rows) : df.rows[i][Len(df.cols)] = v})

(* C8: the entropy of a non-empty dataset is minus the sum over the label *)
(* values v of p_v log2 p_v, p_v = count(v)/|D|, a label value that       *)
(* occurs in no record contributing 0.                                    *)
C8_EntropyFormula ==
    (EntropyDone /\ ~NoRecords(S)) =>
        /\ ret.err = "none"
        /\ ret.val = 0 - SumFun([v \in LabelValues |->
                                   IF LabelCount(S, v) = 0 THEN 0
                                   ELSE PLog2P(LabelCount(S, v), Len(S.rows))])

(* C8 witness: Entropy returned a value greater than 0 for three records  *)
(* in which one of the label values does not occur.                       *)
C8_Witness ==
    /\ EntropyDone
    /\ Len(S.rows) = 3
    /\ \E v \in LabelValues : LabelCount(S, v) = 0
    /\ ret.err = "none"
    /\ ret.val > 0

(* The records of df whose column j holds v, as a table. *)
Subset(df, j, v) == DataFrame(df.cols, SelectSeq(df.rows, LAMBDA r : r[j] = v))

(* C9: the gain Gain returns is the entropy of the dataset minus the sum, *)
(* over the distinct values v of the feature, of |D_v|/|D| times the      *)
(* entropy of the subset D_v of the records whose feature is v.           *)
C9_GainFormula ==
    (GainDone /\ ret.err = "none") =>
        LET j == ColumnIndex(S, arg)
            values == {S.rows[i][j] : i \in 1..Len(S.rows)}
        IN  ret.val = EntropyValue(S)
                        - SumFun([v \in values |->
                                    (Len(Subset(S, j, v).rows) * EntropyValue(Subset(S, j, v)))
                                        \div Len(S.rows)])

(* C9 witness: Gain returned a gain greater than 0 and less than the      *)
(* entropy of the dataset, with subsets of different sizes.               *)
C9_Witness ==
    /\ GainDone
    /\ ret.err = "none"
    /\ Len(S.rows) = 3
    /\ Len(Partition(S, ColumnIndex(S, arg))) = 2
    /\ ret.val > 0
    /\ ret.val < EntropyValue(S)

(* Distinct label values of df. *)
LabelsOf(df) == {df.rows[i][Len(df.cols)] : i \in 1..Len(df.rows)}

(* Every label value that occurs, occurs equally often. *)
UniformLabels(df) ==
    \A v, w \in LabelsOf(df) : LabelCount(df, v) = LabelCount(df, w)

(* C10: for a non-empty dataset with k distinct label values,             *)
(* 0 <= entropy <= log2(k); the entropy is log2(k) exactly when the       *)
(* labels are uniformly distributed and 0 exactly when all labels are     *)
(* identical.                                                             *)
C10_EntropyBounds ==
    (EntropyDone /\ ~NoRecords(S)) =>
        LET k == Cardinality(LabelsOf(S))
        IN  /\ ret.err = "none"
            /\ 0 <= ret.val
            /\ ret.val <= Log2[k] * Lcm
            /\ ret.val = Log2[k] * Lcm <=> UniformLabels(S)
            /\ ret.val = 0 <=> k = 1

(* C10 witness: Entropy returned log2(3) for three records with three     *)
(* different labels.                                                      *)
C10_Witness ==
    /\ EntropyDone
    /\ Cardinality(LabelsOf(S)) = 3
    /\ ret.err = "none"
    /\ ret.val = Log2[3] * Lcm

----------------------------------------------------------------------------
(* Further properties of Gain *)

(* Distinct values of column j of df. *)
ValuesOf(df, j) == {df.rows[i][j] : i \in 1..Len(df.rows)}

(* C11: the gain of every valid feature of a non-empty dataset is at      *)
(* least 0 (exactly, so also within the tolerance of 1e-9).               *)
C11_GainNonNegative ==
    /\ (GainDone /\ ret.err = "none") => ret.val >= 0
    /\ op = "find_node" => \A k \in 1..Len(gains) : gains[k] >= 0

(* C11 witness: Gain returned for a feature that splits three records in *)
(* two subsets, one of them with mixed labels.                            *)
C11_Witness ==
    /\ GainDone
    /\ ret.err = "none"
    /\ Len(S.rows) = 3
    /\ Cardinality(ValuesOf(S, ColumnIndex(S, arg))) = 2
    /\ \E k \in 1..2 : EntropyValue(Partition(S, ColumnIndex(S, arg))[k]) > 0
    /\ ret.val >= 0

(* C12: when the feature has one distinct value in the dataset, its gain  *)
(* is exactly 0.                                                          *)
C12_ConstantFeatureGainZero ==
    (GainDone /\ ret.err = "none" /\ Cardinality(ValuesOf(S, ColumnIndex(S, arg))) = 1)
        => ret.val = 0

(* C12 witness: Gain returned 0 for a feature with one distinct value in  *)
(* a dataset whose entropy is greater than 0.                             *)
C12_Witness ==
    /\ GainDone
    /\ ret.err = "none"
    /\ Cardinality(ValuesOf(S, ColumnIndex(S, arg))) = 1
    /\ EntropyValue(S) > 0
    /\ ret.val = 0

(* The dataset has records and they all have the same label. *)
ConstantLabel(df) ==
    /\ Len(df.cols) >= 1
    /\ Len(df.rows) >= 1
    /\ Cardinality(ValuesOf(df, Len(df.cols))) = 1

(* C13: when the label is constant, the entropy is 0 and the gain of      *)
(* every feature column is 0, and find_node returns the first feature     *)
(* column.                                                                *)
C13_ConstantLabel ==
    ConstantLabel(S) =>
        /\ EntropyDone => ret = Return(0)
        /\ (GainDone /\ ~InvalidFeature(S, arg)) => ret = Return(0)
        /\ op = "find_node" => \A k \in 1..Len(gains) : gains[k] = 0
        /\ (FindNodeDone /\ Len(S.cols) >= 2) =>
              ret.err = "none" /\ ret.val = S.cols[1] /\ Len(gains) = Len(S.cols) - 1

(* C13 witness: find_node returned the first of two feature columns, of   *)
(* which the second varies, for records with a constant label.            *)
C13_Witness ==
    /\ FindNodeDone
    /\ ConstantLabel(S)
    /\ Len(S.cols) = 3
    /\ Cardinality(ValuesOf(S, 2)) = 2
    /\ ret.err = "none"
    /\ ret.val = "A"

----------------------------------------------------------------------------
(* Repeated calls *)

(* C14: a call of find_node ends as the first call of find_node on the    *)
(* same dataset ended: with the same feature name (or the same error).    *)
C14_Deterministic ==
    (FindNodeDone /\ first.err # "nocall") =>
        /\ ret.err = first.err
        /\ ret.err = "none" => ret.val = first.val

(* C14 witness: a later call of find_node returned, as the first did, on  *)
(* a dataset whose two feature columns differ and tie at the maximum.     *)
C14_Witness ==
    /\ FindNodeReturned
    /\ first.err = "none"
    /\ Len(S.cols) = 3
    /\ Column(S, 1) # Column(S, 2)
    /\ GainValue(S, 1) = GainValue(S, 2)
    /\ ret.val = first.val

(* C15: after any sequence of calls of Entropy, Gain and find_node the    *)
(* dataset is as it was read: the same records in the same order, the     *)
(* same column list.                                                      *)
C15_DatasetUnchanged == S = S0

(* C15 witness: a call of Gain returned for a dataset of three records on *)
(* which a call of find_node had ended before.                            *)
C15_Witness ==
    /\ GainDone
    /\ ret.err = "none"
    /\ first.err = "none"
    /\ Len(S.rows) = 3
    /\ S.rows[1] # S.rows[3]
    /\ S = S0

----------------------------------------------------------------------------
(* The worked example *)

(* The fixed-point value x is m millionths, to within half a unit of the  *)
(* fourth decimal place.                                                  *)
Approx(x, m) == x - m * Lcm <= 50 * Lcm /\ m * Lcm - x <= 50 * Lcm

(* C17: for the records (A=x,L=0), (A=x,L=1), (A=y,L=1), (A=y,L=1) the    *)
(* entropy is about 0.8113, the subset A=x has entropy 1.0, the subset    *)
(* A=y has entropy 0.0 and the gain of A is about 0.3113.                 *)
C17_WorkedExample ==
    S = WorkedExample =>
        /\ EntropyDone => ret.err = "none" /\ Approx(ret.val, 811300)
        /\ (GainDone /\ arg = "A") =>
              /\ ret.err = "none"
              /\ Approx(ret.val, 311300)
              /\ Len(Partition(S, 1)) = 2
              /\ Partition(S, 1)[1].rows = <<<<"x", "l0">>, <<"x", "l1">>>>
              /\ EntropyValue(Partition(S, 1)[1]) = 1000000 * Lcm
              /\ Partition(S, 1)[2].rows = <<<<"y", "l1">>, <<"y", "l1">>>>
              /\ EntropyValue(Partition(S, 1)[2]) = 0

(* C17 witness: Gain returned for the feature A of the worked example. *)
C17_Witness ==
    /\ S = WorkedExample
    /\ GainDone
    /\ arg = "A"
    /\ ret.err = "none"
    /\ ret.val > 0

----------------------------------------------------------------------------
(* Totality *)

(* Loop passes find_node has still to make. *)
Remaining == Len(S.cols) - 1 - Len(gains)

(* C19: on a dataset with at least one record and one feature column a    *)
(* call of find_node ends and returns a feature name, with no error: the  *)
(* call always has a next step (a loop pass while passes remain, whose    *)
(* call of Gain has an outcome, and the return when none remains), every  *)
(* step makes one of the remaining passes or returns, and the call ends   *)
(* with a feature name.                                                   *)
C19_Total ==
    /\ []((op = "find_node" /\ WellFormed(S)) =>
            /\ pc = "loop" =>
                  /\ cols = S.cols
                  /\ Remaining >= 0
                  /\ Remaining > 0 => Gain(S, cols[Len(gains) + 1]) # {}
            /\ pc = "done" => ret.err = "none" /\ \E j \in FeaturePositions(S) : ret.val = S.cols[j])
    /\ [][(op = "find_node" /\ pc = "loop" /\ WellFormed(S)) =>
            \/ pc' = "loop" /\ Remaining' = Remaining - 1
            \/ pc' = "done" /\ Remaining = 0 /\ ret'.err = "none"]_vars

(* C19 witness: find_node returned a name for three records with two      *)
(* feature columns.                                                       *)
C19_Witness ==
    /\ FindNodeReturned
    /\ Len(S.rows) = 3
    /\ Len(S.cols) = 3
    /\ \E j \in 1..2 : ret.val = S.cols[j]

----------------------------------------------------------------------------
(* Subsets of the partition *)

(* C20: every subset of the partition Gain builds for a non-empty dataset *)
(* has at least one record, so that Entropy of a subset does not fail,    *)
(* and neither Entropy nor Gain, called on a subset as a recursive driver *)
(* would, raises EmptyDatasetError.                                       *)
C20_SubsetsNonEmpty ==
    \A j \in 1..Len(S.cols) :
        GainComputed(j) =>
            LET parts == Partition(S, j)
            IN  \A k \in 1..Len(parts) :
                    LET Di == parts[k]
                    IN  /\ Len(Di.rows) >= 1
                        /\ Entropy(Di).err = "none"
                        /\ \A f \in FeaturePositions(S) :
                              \A o \in Gain(Di, S.cols[f]) : o.err # "EmptyDatasetError"

(* C20 witness: Gain returned for a feature that splits three records in  *)
(* a subset of one record and a subset of two.                            *)
C20_Witness ==
    /\ GainDone
    /\ ret.err = "none"
    /\ Len(S.rows) = 3
    /\ Len(Partition(S, ColumnIndex(S, arg))) = 2
    /\ \E k \in 1..2 : Len(Partition(S, ColumnIndex(S, arg))[k].rows) = 1

----------------------------------------------------------------------------
(* Gain against entropy *)

(* Every subset of the partition on column j holds one label value only. *)
AllSubsetsPure(df, j) ==
    LET parts == Partition(df, j)
    IN  \A k \in 1..Len(parts) : Cardinality(LabelsOf(parts[k])) = 1

(* C21: the gain of a valid feature of a non-empty dataset is at most the *)
(* entropy of the dataset, and equals it exactly when every subset of the *)
(* partition is pure.                                                     *)
C21_GainAtMostEntropy ==
    \A j \in 1..Len(S.cols) :
        GainComputed(j) =>
            LET gain == IF GainDone THEN ret.val ELSE gains[j]
                entropy == EntropyValue(S)
            IN  /\ gain <= entropy
                /\ gain = entropy <=> AllSubsetsPure(S, j)

(* C21 witness: Gain returned the entropy of three records, which is not *)
(* 0, for a feature with two values that determines the label.           *)
C21_Witness ==
    /\ GainDone
    /\ ret.err = "none"
    /\ Len(S.rows) = 3
    /\ ret.val = EntropyValue(S)
    /\ ret.val > 0
    /\ Cardinality(ValuesOf(S, ColumnIndex(S, arg))) = 2

----------------------------------------------------------------------------
(* Record order *)

(* The identity and the exchanges of two neighbouring rows.  Every order  *)
(* of the rows is reached by a chain of such exchanges, and every table   *)
(* of the chain is a table the notebook may have read.                    *)
Exchange(n, a, b) == [i \in 1..n |-> IF i = a THEN b ELSE IF i = b THEN a ELSE i]

RowOrders(n) == {Exchange(n, 1, 1)} \cup {Exchange(n, a, a + 1) : a \in 1..(n - 1)}

(* The table read from the same records in the order p. *)
Permuted(df, p) == [df EXCEPT !.rows = [i \in 1..Len(df.rows) |-> df.rows[p[i]]]]

(* Position j holds the first maximal value of the sequence g. *)
FirstMaximal(g, j) ==
    /\ j \in 1..Len(g)
    /\ \A k \in 1..Len(g) : g[k] <= g[j]
    /\ \A k \in 1..(j - 1) : g[k] < g[j]

(* C22: the outcome of Entropy, of Gain for any feature and of find_node  *)
(* is the one the same records give with any two of them exchanged, and   *)
(* so in any other order: the entropy and every gain are the same, and    *)
(* find_node returns the first column of maximal gain among these gains.  *)
C22_RecordOrderIrrelevant ==
    (pc = "done") =>
        /\ LET outcomes == Gain(S, arg)
           IN  \A p \in RowOrders(Len(S.rows)) :
                  LET P == Permuted(S, p)
                  IN  /\ EntropyDone => ret = Entropy(P)
                      /\ GainDone => ret \in outcomes /\ Gain(P, arg) = outcomes
                      /\ FindNodeDone =>
                            \A k \in 1..Len(gains) : Gain(P, cols[k]) = {Return(gains[k])}
        /\ FindNodeDone =>
              IF WellFormed(S)
              THEN /\ Len(gains) = Len(S.cols) - 1
                   /\ ret.err = "none"
                   /\ FirstMaximal(gains, ColumnIndex(S, ret.val))
              ELSE ret.err # "none"

(* C22 witness: find_node returned the second feature of three records    *)
(* that are not all equal, so that another order is another table.        *)
C22_Witness ==
    /\ FindNodeReturned
    /\ Len(S.rows) = 3
    /\ S.rows[1] # S.rows[2]
    /\ S.rows[2] # S.rows[3]
    /\ ret.val = S.cols[2]

----------------------------------------------------------------------------
(***************************************************************************)
(* Support vector machines (Week9/SVM_activity.ipynb).                     *)
(*                                                                         *)
(* predict and the plotting cell are complete in the notebook.  The body   *)
(* of fit is left to the reader: what it returns is any pair (w, c).       *)
(* Coordinates, weights and offsets are integers; quotients are exact      *)
(* fractions, with the IEEE values a division by zero gives.               *)
(***************************************************************************)

(* make_blobs draws the same number of samples around each of its two    *)
(* centres: the largest number of samples per centre.                     *)
MaxPerCentre == 1

(* Coordinates of a point passed to predict, components of w, values of c. *)
Coordinates == -1..1
WeightValues == -1..1
OffsetValues == -1..1

(* np.linspace(..., 100): the number of abscissae of the plotted line. *)
LinspaceNum == 100

Abs(a) == IF a < 0 THEN 0 - a ELSE a

(* Mutation of NpSign: zero counts as positive (a test v >= 0). *)
NpSignNoZero(v) == IF v >= 0 THEN 1 ELSE 0 - 1

(* np.sign *)
NpSign(v) == IF v > 0 THEN 1 ELSE IF v < 0 THEN 0 - 1 ELSE 0

(* np.dot of two vectors of the same length. *)
NpDot(a, b) == SumSeq([k \in 1..Len(a) |-> a[k] * b[k]])

(* predict(features, w, c) for the features of one point. *)
Predict(features, w, c) == NpSign(NpDot(features, w) + c)

(* np.where(y == 0, -1, y) *)
NpWhereZero(y) == [i \in 1..Len(y) |-> IF y[i] = 0 THEN 0 - 1 ELSE y[i]]

SignOf(n) == IF n > 0 THEN 1 ELSE IF n < 0 THEN 0 - 1 ELSE 0

(* A float64 quotient n/d with d > 0 in lowest terms; d = 0 holds the     *)
(* values that are no number: n = 1 is inf, n = -1 is -inf, n = 0 is nan. *)
Frac(n, d) ==
    IF d = 0 THEN [n |-> SignOf(n), d |-> 0]
    ELSE LET g == Gcd(Abs(n), Abs(d))
         IN  [n |-> (SignOf(d) * n) \div g, d |-> Abs(d) \div g]

Whole(i) == Frac(i, 1)
NaN == Frac(0, 0)

(* a / b as numpy divides float64 values: x/0 is inf, -inf or nan. *)
FracDiv(a, b) ==
    IF a.d = 0 /\ b.d = 0 THEN NaN
    ELSE IF a.d = 0 THEN Frac(a.n * (IF b.n < 0 THEN 0 - 1 ELSE 1), 0)
    ELSE IF b.d = 0 THEN (IF b.n = 0 THEN NaN ELSE Whole(0))
    ELSE Frac(a.n * b.d, a.d * b.n)

FracMul(a, b) ==
    IF a.d = 0 \/ b.d = 0 THEN Frac(SignOf(a.n) * SignOf(b.n), 0)
    ELSE Frac(a.n * b.n, a.d * b.d)

FracAdd(a, b) ==
    IF a.d = 0 /\ b.d = 0 THEN (IF a.n = b.n THEN a ELSE NaN)
    ELSE IF a.d = 0 THEN a
    ELSE IF b.d = 0 THEN b
    ELSE Frac(a.n * b.d + b.n * a.d, a.d * b.d)

(* X[:,j]: column j of the samples. *)
SampleColumn(X, j) == [i \in 1..Len(X) |-> X[i][j]]

MinOf(s) == CHOOSE v \in Range(s) : \A u \in Range(s) : v <= u
MaxOf(s) == CHOOSE v \in Range(s) : \A u \in Range(s) : v >= u

(* A column after (X - mean)/std: its mean is 0 and its standard          *)
(* deviation is 1.                                                        *)
Normalized(col) ==
    /\ SumSeq(col) = 0
    /\ SumSeq([i \in 1..Len(col) |-> col[i] * col[i]]) = Len(col)

(* The tables of n two-dimensional samples with normalized columns. *)
NormalizedSamples(n) ==
    {X \in [1..n -> [1..2 -> -1..1]] : Normalized(SampleColumn(X, 1)) /\ Normalized(SampleColumn(X, 2))}

(* The labels of make_blobs for two centres: 0 or 1, half of each. *)
BlobLabels(n) == {y \in [1..n -> {0, 1}] : 2 * SumSeq(y) = n}

(* np.linspace(lo, hi, num) *)
NpLinspace(lo, hi, num) ==
    [k \in 1..num |-> Frac(lo * (num - 1) + (hi - lo) * (k - 1), num - 1)]

(* What fit may return: any w and c. *)
FitResults == [w : [1..2 -> WeightValues], c : OffsetValues]

(* The kernel before the first cell has run: no name is bound yet. *)
SvmStart ==
    [pc |-> "start", X |-> <<>>, y |-> <<>>, wf |-> <<0, 0>>, cf |-> 0,
     m |-> NaN, b |-> NaN, xs |-> <<>>, line |-> <<>>,
     features |-> <<0, 0>>, y_pred |-> 0]

SvmInit ==
    /\ svm = SvmStart
    /\ jax = JaxClosed
    /\ keras = KerasClosed
    /\ S = DataFrame(<<>>, <<>>)
    /\ S0 = S
    /\ pc = "closed"
    /\ op = "none"
    /\ arg = "none"
    /\ cols = <<>>
    /\ gains = <<>>
    /\ calls = <<>>
    /\ ret = Return(0)
    /\ first = NoCall

Others == <<S, pc, op, arg, cols, gains, calls, ret, S0, first>>

(* The data cell: make_blobs, the labels 0 recoded to -1, the columns     *)
(* normalized.                                                            *)
MakeBlobs ==
    /\ svm.pc = "start"
    /\ \E k \in 1..MaxPerCentre :
         \E X \in NormalizedSamples(2 * k), y \in BlobLabels(2 * k) :
            svm' = [svm EXCEPT !.pc = "data", !.X = X, !.y = NpWhereZero(y)]
    /\ UNCHANGED <<Others, jax, keras>>

(* wf, cf = fit(X) *)
Fit ==
    /\ svm.pc = "data"
    /\ \E r \in FitResults : svm' = [svm EXCEPT !.pc = "fit", !.wf = r.w, !.cf = r.c]
    /\ UNCHANGED <<Others, jax, keras>>

(* The plotting cell: wf, cf = fit(X); xs = np.linspace(min, max, 100);  *)
(* m = -wf[0]/wf[1]; b = cf/wf[1]; plt.plot(xs, m*xs+b).  fit scans the   *)
(* same candidates over the same X as in the cell before and returns the  *)
(* same pair.                                                             *)
PlotHyperplane ==
    /\ svm.pc = "fit"
    /\ LET xs == NpLinspace(MinOf(SampleColumn(svm.X, 1)), MaxOf(SampleColumn(svm.X, 1)),
                            LinspaceNum)
           m == FracDiv(Whole(0 - svm.wf[1]), Whole(svm.wf[2]))
           b == FracDiv(Whole(svm.cf), Whole(svm.wf[2]))
       IN  svm' = [svm EXCEPT !.pc = "plot", !.m = m, !.b = b, !.xs = xs,
                              !.line = [k \in 1..Len(xs) |->
                                          <<xs[k], FracAdd(FracMul(m, xs[k]), b)>>]]
    /\ UNCHANGED <<Others, jax, keras>>

(* predict(features, wf, cf), the last cell, for the features of a point. *)
CallPredict(features) ==
    /\ svm.pc = "plot"
    /\ svm' = [svm EXCEPT !.pc = "predicted", !.features = features,
                          !.y_pred = Predict(features, svm.wf, svm.cf)]
    /\ UNCHANGED <<Others, jax, keras>>

SvmNext ==
    \/ MakeBlobs
    \/ Fit
    \/ PlotHyperplane
    \/ \E features \in [1..2 -> Coordinates] : CallPredict(features)

SvmSpec == SvmInit /\ [][SvmNext]_vars

----------------------------------------------------------------------------
(* Properties of predict and of the plotted line *)

SvmPredicted == svm.pc = "predicted"
SvmPlotted == svm.pc \in {"plot", "predicted"}

(* features . w + c for the last call of predict. *)
Decision == svm.features[1] * svm.wf[1] + svm.features[2] * svm.wf[2] + svm.cf

(* C23: predict returns the sign of features . w + c: 1 when it is        *)
(* positive, -1 when it is negative and 0 when it is zero; the training   *)
(* labels are -1 and 1, so that a point on the hyperplane is predicted    *)
(* as neither class.                                                      *)
C23_PredictIsSign ==
    SvmPredicted =>
        /\ Decision > 0 => svm.y_pred = 1
        /\ Decision < 0 => svm.y_pred = 0 - 1
        /\ Decision = 0 => svm.y_pred = 0
        /\ Range(svm.y) \subseteq {0 - 1, 1}
        /\ Decision = 0 => svm.y_pred \notin Range(svm.y)

(* C23 witness: predict was called for a training sample that lies on a   *)
(* hyperplane with a weight vector other than 0, and returned 0.          *)
C23_Witness ==
    /\ SvmPredicted
    /\ svm.features \in Range(svm.X)
    /\ svm.wf # <<0, 0>>
    /\ svm.cf # 0
    /\ Decision = 0
    /\ svm.y_pred = 0

(* w[0]*x1 + w[1]*x2 + c at a point of the plane. *)
Residual(w, c, point) ==
    FracAdd(FracAdd(FracMul(Whole(w[1]), point[1]), FracMul(Whole(w[2]), point[2])),
            Whole(c))

(* C24: when wf[1] is not 0, every point the plotting cell draws lies on  *)
(* the hyperplane wf[0]*x1 + wf[1]*x2 + cf = 0.                           *)
C24_LineIsHyperplane ==
    (SvmPlotted /\ svm.wf[2] # 0) =>
        \A k \in 1..Len(svm.line) : Residual(svm.wf, svm.cf, svm.line[k]) = Whole(0)

----------------------------------------------------------------------------
(***************************************************************************)
(* Regression with JAX (unnamed/part_000) and its Keras rebuild (second    *)
(* notebook of Week7/DecisionTrees.ipynb).                                 *)
(*                                                                         *)
(* The examples are drawn at random: example i is named by its number, in  *)
(* each of its features and in its target.  loss is a stub, and so are the *)
(* gradient and the update of the weights in gradient_descent: the loss is *)
(* any function of its three arguments and the update yields any weights.  *)
(***************************************************************************)

(* Largest num_epochs gradient_descent is called with. *)
MaxEpochs == 3

(* Weight vectors of the linear model, one weight per feature. *)
WeightChoices == {<<0, 0, 0>>, <<1, 0, 2>>, <<1, 1, 2>>}

(* x = np.random.uniform(size=(N, n_feat)): row i is example i. *)
Examples(N, n_feat) == [i \in 1..N |-> [k \in 1..n_feat |-> i]]

(* y = true(x): entry i is the target of example i. *)
Targets(x) == [i \in 1..Len(x) |-> x[i][1]]

(* int((N*.8)//1) *)
SplitIndex(N) == (N * 8) \div 10

(* a[:k] *)
SliceTo(a, k) == SubSeq(a, 1, IF k > Len(a) THEN Len(a) ELSE k)

(* Mutation of SliceFrom: the slice starts one element late (a[k+1:]). *)
SliceFromSkip(a, k) == SubSeq(a, k + 2, Len(a))

(* a[k:] *)
SliceFrom(a, k) == SubSeq(a, k + 1, Len(a))

(* np.zeros(n) *)
NpZeros(n) == [i \in 1..n |-> 0]

(* The value of loss(w, x, y_tr): some function of the three. *)
Loss(w, x, y_tr) == [w |-> w, x |-> x, y_tr |-> y_tr]

(* The shape of an array drawn by jax.random.normal(key, shape). *)
RandomNormal(shape) == [shape |-> shape]

(* The frame of a call of gradient_descent; trajectory lists the weights  *)
(* in effect, from those passed in to those of the latest update.         *)
NoFrame ==
    [w |-> <<>>, num_epochs |-> 0, i |-> 0, loss_f |-> <<>>, valloss_f |-> <<>>,
     trajectory |-> <<>>]

JaxStart ==
    [pc |-> "start", N |-> 0, n_feat |-> 0, x |-> <<>>, y |-> <<>>, w |-> <<>>,
     split |-> 0, train_x |-> <<>>, train_y |-> <<>>, val_x |-> <<>>, val_y |-> <<>>,
     gd |-> NoFrame, lossf |-> <<>>, val_lossf |-> <<>>,
     num_features |-> 0, num_hidden |-> 0, w1 |-> RandomNormal(<<>>), w2 |-> RandomNormal(<<>>)]

KerasStart ==
    [pc |-> "start", N |-> 0, n_feat |-> 0, x |-> <<>>, y |-> <<>>,
     split |-> 0, train_x |-> <<>>, train_y |-> <<>>, test_x |-> <<>>, test_y |-> <<>>,
     split2 |-> 0, val_x |-> <<>>, val_y |-> <<>>,
     model |-> <<>>, fit |-> [x |-> <<>>, y |-> <<>>, epochs |-> 0, validation_data |-> <<>>],
     predicted |-> <<>>]

(* One of the two notebooks is opened. *)
NeuralInit ==
    /\ \/ jax = JaxStart /\ keras = KerasClosed
       \/ jax = JaxClosed /\ keras = KerasStart
    /\ svm = SvmClosed
    /\ S = DataFrame(<<>>, <<>>)
    /\ S0 = S
    /\ pc = "closed"
    /\ op = "none"
    /\ arg = "none"
    /\ cols = <<>>
    /\ gains = <<>>
    /\ calls = <<>>
    /\ ret = Return(0)
    /\ first = NoCall

(* JAX: N = 1000; n_feat = 3; x = np.random.uniform(...); y = true(x) *)
JaxData ==
    /\ jax.pc = "start"
    /\ LET x == Examples(1000, 3)
       IN  jax' = [jax EXCEPT !.pc = "data", !.N = 1000, !.n_feat = 3, !.x = x,
                              !.y = Targets(x)]
    /\ UNCHANGED <<Others, svm, keras>>

(* JAX: w = jax.random.normal(key, (3,)); split = int((N*.8)//1);         *)
(* train_x = x[:split] ... val_y = y[split:]                              *)
JaxSplit ==
    /\ jax.pc = "data"
    /\ \E w \in WeightChoices :
         LET split == SplitIndex(jax.N)
         IN  jax' = [jax EXCEPT !.pc = "split", !.w = w, !.split = split,
                                !.train_x = SliceTo(jax.x, split),
                                !.train_y = SliceTo(jax.y, split),
                                !.val_x = SliceFrom(jax.x, split),
                                !.val_y = SliceFrom(jax.y, split)]
    /\ UNCHANGED <<Others, svm, keras>>

(* gradient_descent(w, train_x, train_y, val_x, val_y, ..., num_epochs):  *)
(* loss_f = np.zeros(num_epochs); valloss_f = np.zeros(num_epochs)        *)
GradientDescentEnter(num_epochs) ==
    /\ jax.pc = "split"
    /\ jax' = [jax EXCEPT !.pc = "gd",
                          !.gd = [w |-> jax.w, num_epochs |-> num_epochs, i |-> 0,
                                  loss_f |-> NpZeros(num_epochs),
                                  valloss_f |-> NpZeros(num_epochs),
                                  trajectory |-> <<jax.w>>]]
    /\ UNCHANGED <<Others, svm, keras>>

(* Mutation of GradientDescentEpoch: the weights are updated first and   *)
(* the losses of the updated weights are recorded.                       *)
GradientDescentUpdateFirst ==
    /\ jax.pc = "gd"
    /\ jax.gd.i < jax.gd.num_epochs
    /\ \E w \in WeightChoices :
         jax' = [jax EXCEPT !.gd.loss_f[jax.gd.i + 1] = Loss(w, jax.train_x, jax.train_y),
                            !.gd.valloss_f[jax.gd.i + 1] = Loss(w, jax.val_x, jax.val_y),
                            !.gd.w = w,
                            !.gd.trajectory = Append(jax.gd.trajectory, w),
                            !.gd.i = jax.gd.i + 1]
    /\ UNCHANGED <<Others, svm, keras>>

(* One pass of for i in range(num_epochs): loss_f[i] = loss(w, xtrain,    *)
(* ytrain); valloss_f[i] = loss(w, xval, yval); then the update of w.     *)
GradientDescentEpoch ==
    /\ jax.pc = "gd"
    /\ jax.gd.i < jax.gd.num_epochs
    /\ \E w \in WeightChoices :
         jax' = [jax EXCEPT !.gd.loss_f[jax.gd.i + 1] = Loss(jax.gd.w, jax.train_x, jax.train_y),
                            !.gd.valloss_f[jax.gd.i + 1] = Loss(jax.gd.w, jax.val_x, jax.val_y),
                            !.gd.w = w,
                            !.gd.trajectory = Append(jax.gd.trajectory, w),
                            !.gd.i = jax.gd.i + 1]
    /\ UNCHANGED <<Others, svm, keras>>

(* return w, loss_f, valloss_f, bound to w, lossf, val_lossf. *)
GradientDescentReturn ==
    /\ jax.pc = "gd"
    /\ jax.gd.i = jax.gd.num_epochs
    /\ jax' = [jax EXCEPT !.pc = "trained", !.w = jax.gd.w, !.lossf = jax.gd.loss_f,
                          !.val_lossf = jax.gd.valloss_f]
    /\ UNCHANGED <<Others, svm, keras>>

(* JAX: num_features = len(x[0]); num_hidden = 3;                         *)
(* w1 = jax.random.normal(key, (num_features, num_hidden));               *)
(* w2 = jax.random.normal(key, (3,))                                      *)
InitNetwork ==
    /\ jax.pc = "trained"
    /\ LET num_features == Len(jax.x[1])
           num_hidden == 3
       IN  jax' = [jax EXCEPT !.pc = "network", !.num_features = num_features,
                              !.num_hidden = num_hidden,
                              !.w1 = RandomNormal(<<num_features, num_hidden>>),
                              !.w2 = RandomNormal(<<3>>)]
    /\ UNCHANGED <<Others, svm, keras>>

(* Keras: N = 1200 ... split = int((N*.8)//1); train, test;               *)
(* split2 = int((len(train_x[:,0]*.2)//1)): the length of the column      *)
(* train_x[:,0] scaled by .2, which is the length of train_x;             *)
(* val_x = x[:split2]; val_y = y[:split2]                                 *)
KerasData ==
    /\ keras.pc = "start"
    /\ LET x == Examples(1200, 3)
           y == Targets(x)
           split == SplitIndex(1200)
           train_x == SliceTo(x, split)
           split2 == Len(SampleColumn(train_x, 1))
       IN  keras' = [keras EXCEPT !.pc = "data", !.N = 1200, !.n_feat = 3, !.x = x, !.y = y,
                                  !.split = split,
                                  !.train_x = train_x, !.train_y = SliceTo(y, split),
                                  !.test_x = SliceFrom(x, split), !.test_y = SliceFrom(y, split),
                                  !.split2 = split2,
                                  !.val_x = SliceTo(x, split2), !.val_y = SliceTo(y, split2)]
    /\ UNCHANGED <<Others, svm, jax>>

(* Keras: Sequential of Input(shape=(3,)), Dense(4, sigmoid), Dense(1). *)
KerasBuild ==
    /\ keras.pc = "data"
    /\ keras' = [keras EXCEPT !.pc = "built", !.model = <<3, 4, 1>>]
    /\ UNCHANGED <<Others, svm, jax>>

(* Keras: model.fit(train_x, train_y, epochs=100,                         *)
(* validation_data=(val_x, val_y))                                        *)
KerasFit ==
    /\ keras.pc = "built"
    /\ keras' = [keras EXCEPT !.pc = "fitted",
                              !.fit = [x |-> keras.train_x, y |-> keras.train_y, epochs |-> 100,
                                       validation_data |-> <<keras.val_x, keras.val_y>>]]
    /\ UNCHANGED <<Others, svm, jax>>

(* Keras: y_pred = model.predict(test_x), one value per test example. *)
KerasPredict ==
    /\ keras.pc = "fitted"
    /\ keras' = [keras EXCEPT !.pc = "predicted", !.predicted = keras.test_x]
    /\ UNCHANGED <<Others, svm, jax>>

NeuralNext ==
    \/ JaxData
    \/ JaxSplit
    \/ \E num_epochs \in 0..MaxEpochs : GradientDescentEnter(num_epochs)
    \/ GradientDescentEpoch
    \/ GradientDescentReturn
    \/ InitNetwork
    \/ KerasData
    \/ KerasBuild
    \/ KerasFit
    \/ KerasPredict

NeuralSpec == NeuralInit /\ [][NeuralNext]_vars

----------------------------------------------------------------------------
(* Properties of the splits *)

(* The numbers of the examples a slice of x or of y holds. *)
ExamplesOf(xs) == {xs[k][1] : k \in 1..Len(xs)}
TargetsOf(ys) == {ys[k] : k \in 1..Len(ys)}

(* Row k of xs and entry k of ys belong to the same example, for every k. *)
Aligned(xs, ys) == Len(xs) = Len(ys) /\ \A k \in 1..Len(xs) : xs[k][1] = ys[k]

JaxSplitDone == jax.pc \in {"split", "gd", "trained", "network"}

(* C26: of the 1000 examples of the JAX notebook the training set is the  *)
(* first 800 and the validation set the other 200; the two sets share no  *)
(* example, every example is in exactly one of them, and features and     *)
(* targets are cut at the same index.                                     *)
C26_JaxSplit ==
    JaxSplitDone =>
        /\ jax.N = 1000
        /\ jax.split = 800
        /\ jax.train_x = [i \in 1..800 |-> jax.x[i]]
        /\ jax.val_x = [i \in 1..200 |-> jax.x[800 + i]]
        /\ ExamplesOf(jax.train_x) \cap ExamplesOf(jax.val_x) = {}
        /\ ExamplesOf(jax.train_x) \cup ExamplesOf(jax.val_x) = 1..jax.N
        /\ Len(jax.train_x) + Len(jax.val_x) = jax.N
        /\ Aligned(jax.train_x, jax.train_y)
        /\ Aligned(jax.val_x, jax.val_y)

(* C26 witness: the split has run and the validation set holds the 200    *)
(* examples from 801 on.                                                  *)
C26_Witness ==
    /\ jax.pc = "split"
    /\ Len(jax.val_x) = 200
    /\ ExamplesOf(jax.val_x) = 801..1000
    /\ Len(jax.train_y) = 800

KerasDataDone == keras.pc \in {"data", "built", "fitted", "predicted"}

(* C27: of the 1200 examples of the Keras notebook the training set is    *)
(* the first 960, the test set the other 240, and the validation set has  *)
(* split2 = 192 examples, 20% of the size of the training set.            *)
C27_KerasSplitSizes ==
    KerasDataDone =>
        /\ keras.split = 960
        /\ keras.train_x = [i \in 1..960 |-> keras.x[i]]
        /\ keras.test_x = [i \in 1..240 |-> keras.x[960 + i]]
        /\ keras.split2 = 192
        /\ Len(keras.val_x) = 192
        /\ 5 * Len(keras.val_x) = Len(keras.train_x)

(* C28: the validation set passed to model.fit shares no example with the *)
(* training set passed to the same call, and neither shares an example    *)
(* with the test set.                                                     *)
C28_KerasSetsDisjoint ==
    keras.pc \in {"fitted", "predicted"} =>
        /\ ExamplesOf(keras.fit.validation_data[1]) \cap ExamplesOf(keras.fit.x) = {}
        /\ TargetsOf(keras.fit.validation_data[2]) \cap TargetsOf(keras.fit.y) = {}
        /\ ExamplesOf(keras.fit.validation_data[1]) \cap ExamplesOf(keras.test_x) = {}
        /\ ExamplesOf(keras.fit.x) \cap ExamplesOf(keras.test_x) = {}

----------------------------------------------------------------------------
(* Properties of gradient_descent *)

GradientDescentReturned == jax.pc \in {"trained", "network"}

(* C29: gradient_descent makes exactly num_epochs passes and returns the  *)
(* weights and two arrays of num_epochs losses; entry i holds the losses  *)
(* of the weights in effect before the update of pass i, entry 0 those of *)
(* the weights passed in; the returned weights are those of the last      *)
(* update, whose loss no entry holds.                                     *)
C29_LossBeforeUpdate ==
    /\ jax.pc = "gd" =>
          /\ jax.gd.i <= jax.gd.num_epochs
          /\ Len(jax.gd.loss_f) = jax.gd.num_epochs
          /\ Len(jax.gd.valloss_f) = jax.gd.num_epochs
          /\ Len(jax.gd.trajectory) = jax.gd.i + 1
    /\ GradientDescentReturned =>
          LET n == jax.gd.num_epochs
              ws == jax.gd.trajectory
          IN  /\ jax.gd.i = n
              /\ Len(jax.lossf) = n
              /\ Len(jax.val_lossf) = n
              /\ Len(ws) = n + 1
              /\ \A i \in 1..n :
                    /\ jax.lossf[i] = Loss(ws[i], jax.train_x, jax.train_y)
                    /\ jax.val_lossf[i] = Loss(ws[i], jax.val_x, jax.val_y)
              /\ jax.w = ws[n + 1]

(* C29 witness: gradient_descent returned after at least two passes that  *)
(* each changed the weights; the first entry is the loss of the weights   *)
(* passed in.                                                             *)
C29_Witness ==
    /\ jax.pc = "trained"
    /\ jax.gd.num_epochs >= 2
    /\ \A i \in 1..jax.gd.num_epochs : jax.gd.trajectory[i] # jax.gd.trajectory[i + 1]
    /\ jax.lossf[1].w = jax.gd.trajectory[1]
    /\ jax.lossf[jax.gd.num_epochs].w # jax.w

----------------------------------------------------------------------------
(* Shapes of the network weights *)

(* C30: w1 has the shape (num_features, num_hidden), w2 has num_hidden    *)
(* entries, and num_hidden is 4, the number of nodes of the hidden layer. *)
C30_NetworkShapes ==
    jax.pc = "network" =>
        /\ jax.w1.shape = <<jax.num_features, jax.num_hidden>>
        /\ jax.w2.shape = <<jax.num_hidden>>
        /\ jax.num_hidden = 4

====
